---- MODULE Spec2Model ----
(***************************************************************************)
(* dupchecker (src/src/main.rs): read a folder path from stdin, list the   *)
(* image files of that folder, fingerprint each one, group the paths by    *)
(* fingerprint, print the groups with two or more paths, and, when the     *)
(* user answers yes, remove every path of a group but its first.           *)
(*                                                                         *)
(* Strings are sequences of one-character strings, so that trim,           *)
(* to_lowercase, Path::extension and path joining are computed.            *)
(***************************************************************************)
EXTENDS Integers, Sequences, FiniteSets, TLC

VARIABLES
    dir,               \* the entries fs::read_dir yields for the folder, in its order
    files,             \* the paths that exist as regular files right now
    files0,            \* the paths that existed as regular files when main started
    pc,                \* the statement of main / find_duplicate_images that runs next
    folder_path,       \* main: folder_path, after trim()
    idx,               \* find_duplicate_images: position of `for entry in entries`
    image_paths,       \* find_duplicate_images: image_paths
    hidx,              \* find_duplicate_images: position of `for image_path in image_paths`
    image_hashes,      \* find_duplicate_images: image_hashes
    hashed,            \* the paths calculate_image_hash was called on, in call order
    find_result,       \* "none", "ok" or "err": what find_duplicate_images returned
    duplicates,        \* main: duplicates
    order,             \* the order in which the HashMap `duplicates` iterates its keys
    printed,           \* the groups main printed, <<hash, paths>> each
    out,               \* the other lines main printed on stdout
    answer_line,       \* the line read at the deletion prompt, as typed
    delete_duplicates, \* main: delete_duplicates, after trim().to_lowercase()
    gi,                \* deletion: position in `for (_, image_paths) in &duplicates`
    pi,                \* deletion: position in `image_paths.iter().skip(1)`
    attempts,          \* the paths fs::remove_file was called on, in call order
    err_log,           \* the paths of the "Error deleting" lines on stderr
    exit_status        \* "running", "ok" (main returned Ok) or "err" (main returned Err)

vars == <<dir, files, files0, pc, folder_path, idx, image_paths, hidx, image_hashes,
          hashed, find_result, duplicates, order, printed, out, answer_line,
          delete_duplicates, gi, pi, attempts, err_log, exit_status>>

(***************************************************************************)
(* Bounds of the model.                                                    *)
(***************************************************************************)
MaxEntries == 4        \* entries of the folder, full runs
MaxScanEntries == 2    \* entries of the folder, runs over the wide choice of names

(***************************************************************************)
(* Strings.                                                                *)
(***************************************************************************)
UpperCase == <<"A","B","C","D","E","F","G","H","I","J","K","L","M",
               "N","O","P","Q","R","S","T","U","V","W","X","Y","Z">>
LowerCase == <<"a","b","c","d","e","f","g","h","i","j","k","l","m",
               "n","o","p","q","r","s","t","u","v","w","x","y","z">>

\* no change of case
ToLowerChar_same(c) == c

\* char::to_lowercase on the characters the model uses
ToLowerChar(c) ==
    IF \E i \in 1..Len(UpperCase) : UpperCase[i] = c
    THEN LowerCase[CHOOSE i \in 1..Len(UpperCase) : UpperCase[i] = c]
    ELSE c

\* str::to_lowercase
ToLower(s) == [i \in 1..Len(s) |-> ToLowerChar(s[i])]

\* The characters with the Unicode property White_Space, which str::trim
\* strips.  Those that have no escape in a string are written by code point.
WhiteSpace ==
    {"\t", "\n", "U+000B", "\f", "\r", " ", "U+0085", "U+00A0", "U+1680",
     "U+2000", "U+2001", "U+2002", "U+2003", "U+2004", "U+2005", "U+2006",
     "U+2007", "U+2008", "U+2009", "U+200A", "U+2028", "U+2029", "U+202F",
     "U+205F", "U+3000"}

\* str::trim: the longest slice that neither starts nor ends with white space
Trim(s) ==
    LET keep == {i \in 1..Len(s) : s[i] \notin WhiteSpace}
    IN  IF keep = {} THEN <<>>
        ELSE LET lo == CHOOSE i \in keep : \A j \in keep : i <= j
                 hi == CHOOSE i \in keep : \A j \in keep : j <= i
             IN  SubSeq(s, lo, hi)

None == [some |-> FALSE, val |-> <<>>]
Some(v) == [some |-> TRUE, val |-> v]

\* Path::extension of a path whose last component is `name`: None without a
\* dot, None when the only dot is the first character, else what follows the
\* last dot
Extension(name) ==
    LET dots == {i \in 1..Len(name) : name[i] = "."}
    IN  IF dots = {} THEN None
        ELSE LET last == CHOOSE i \in dots : \A j \in dots : j <= i
             IN  IF last = 1 THEN None
                 ELSE Some(SubSeq(name, last + 1, Len(name)))

\* Path::join of a folder and a file name, as DirEntry::path builds it
Join(base, name) ==
    IF Len(base) = 0 \/ base[Len(base)] = "/" THEN base \o name
    ELSE base \o <<"/">> \o name

(***************************************************************************)
(* The file system.  The working directory is its root and holds RootDir,  *)
(* FilePath and LockedDir.  The folder RootDir holds the entries `dir`;     *)
(* FilePath is a regular file and LockedDir a directory that can be        *)
(* neither listed nor searched.  An                                        *)
(* entry is a regular file, a directory (with the files in it), a dangling *)
(* symbolic link, or a position at which the directory iterator yields an  *)
(* error.                                                                  *)
(***************************************************************************)
RootDir == <<"d">>
FilePath == <<"f">>
LockedDir == <<"u">>

\* File contents: an encoding and the colour (B, G, R) of a one-colour image,
\* or bytes that no decoder reads.
Corrupt == [enc |-> "none", bgr |-> <<>>]
RedPng == [enc |-> "png", bgr |-> <<0, 0, 255>>]
RedJpg == [enc |-> "jpg", bgr |-> <<1, 0, 255>>]
BluePng == [enc |-> "png", bgr |-> <<255, 0, 0>>]
Contents == {RedPng, RedJpg, BluePng, Corrupt}

FileEntry(name, content) ==
    [kind |-> "file", name |-> name, content |-> content, children |-> <<>>]
DirEntry(name, children) ==
    [kind |-> "dir", name |-> name, content |-> Corrupt, children |-> children]
BadLink(name) ==
    [kind |-> "badlink", name |-> name, content |-> Corrupt, children |-> <<>>]
IoErr(name) ==
    [kind |-> "ioerr", name |-> name, content |-> Corrupt, children |-> <<>>]

\* The file a subdirectory may hold
ChildName == <<"k", ".", "b", "m", "p">>
Child == [name |-> ChildName, content |-> RedPng]

\* The regular files at and below RootDir, with their contents
TreeFiles(d) ==
    {[path |-> Join(RootDir, d[i].name), name |-> d[i].name, content |-> d[i].content] :
        i \in {j \in 1..Len(d) : d[j].kind = "file"}}
    \cup
    UNION {{[path |-> Join(Join(RootDir, d[i].name), d[i].children[c].name),
             name |-> d[i].children[c].name,
             content |-> d[i].children[c].content] : c \in 1..Len(d[i].children)} :
        i \in {j \in 1..Len(d) : d[j].kind = "dir"}}

TreePaths(d) == {f.path : f \in TreeFiles(d)}

\* The components of a path, split at "/"; an empty component stands where a
\* slash leads, trails or is doubled
RECURSIVE SplitFrom(_, _, _)
SplitFrom(path, i, cur) ==
    IF i > Len(path) THEN <<cur>>
    ELSE IF path[i] = "/" THEN <<cur>> \o SplitFrom(path, i + 1, <<>>)
    ELSE SplitFrom(path, i + 1, Append(cur, path[i]))

Split(path) == SplitFrom(path, 1, <<>>)

\* An object of the file system is named by the names that lead to it from the
\* working directory, which is the root of the file system and holds RootDir,
\* FilePath and LockedDir.  What is at an object: "dir", "file" or "none".
\* A dangling link leads to nothing.
KindAt(obj) ==
    IF Len(obj) = 0 THEN "dir"
    ELSE IF Len(obj) = 1
    THEN IF obj[1] \in {RootDir, LockedDir} THEN "dir"
         ELSE IF obj[1] = FilePath THEN "file" ELSE "none"
    ELSE IF Len(obj) = 2 /\ obj[1] = RootDir
    THEN IF \E i \in 1..Len(dir) : dir[i].name = obj[2] /\ dir[i].kind = "dir"
         THEN "dir"
         ELSE IF \E i \in 1..Len(dir) : dir[i].name = obj[2] /\ dir[i].kind = "file"
         THEN "file" ELSE "none"
    ELSE IF Len(obj) = 3 /\ obj[1] = RootDir
    THEN IF \E i \in 1..Len(dir) :
                /\ dir[i].name = obj[2] /\ dir[i].kind = "dir"
                /\ \E k \in 1..Len(dir[i].children) : dir[i].children[k].name = obj[3]
         THEN "file" ELSE "none"
    ELSE "none"

\* The walk of path resolution from an object along the components left.
\* Every step needs a directory under it; a name, "." and ".." also need the
\* permission to search it, which LockedDir does not give.
RECURSIVE Walk(_, _)
Walk(comps, obj) ==
    IF comps = <<>> THEN [ok |-> KindAt(obj) # "none", obj |-> obj]
    ELSE IF KindAt(obj) # "dir" THEN [ok |-> FALSE, obj |-> obj]
    ELSE IF Head(comps) = <<>> THEN Walk(Tail(comps), obj)
    ELSE IF obj = <<LockedDir>> THEN [ok |-> FALSE, obj |-> obj]
    ELSE IF Head(comps) = <<".">> THEN Walk(Tail(comps), obj)
    ELSE IF Head(comps) = <<".", ".">>
    THEN Walk(Tail(comps), SubSeq(obj, 1, Len(obj) - 1))
    ELSE Walk(Tail(comps), Append(obj, Head(comps)))

\* The object a path leads to, however the path is spelled; the empty path
\* leads nowhere
Resolve(path) ==
    IF path = <<>> THEN [ok |-> FALSE, obj |-> <<>>]
    ELSE Walk(Split(path), <<>>)

\* The plain spelling of an object: its names with "/" between them
RECURSIVE Canon(_)
Canon(obj) ==
    IF Len(obj) = 0 THEN <<>>
    ELSE IF Len(obj) = 1 THEN obj[1]
    ELSE obj[1] \o <<"/">> \o Canon(Tail(obj))

\* The plain spelling of the object a path leads to
Real(path) == Canon(Resolve(path).obj)

\* Path::is_dir
IsDir(path) == \E r \in {Resolve(path)} : r.ok /\ KindAt(r.obj) = "dir"

\* Path::is_file: false for a directory, and false when the metadata of the
\* path cannot be read
IsFile(path) ==
    \E r \in {Resolve(path)} :
        r.ok /\ KindAt(r.obj) = "file" /\ Canon(r.obj) \in files

\* fs::read_dir: whether the directory can be opened for listing
ReadDirOk(path) ==
    \E r \in {Resolve(path)} :
        r.ok /\ KindAt(r.obj) = "dir" /\ r.obj # <<LockedDir>>

\* fs::read_dir: the entries of a directory that can be listed, in the order
\* the iterator yields them
Listing(path) ==
    LET obj == Resolve(path).obj
    IN  IF obj = <<>>
        THEN <<DirEntry(RootDir, <<>>), FileEntry(FilePath, Corrupt),
               DirEntry(LockedDir, <<>>)>>
        ELSE IF obj = <<RootDir>> THEN dir
        ELSE LET sub == dir[CHOOSE i \in 1..Len(dir) :
                              dir[i].kind = "dir" /\ dir[i].name = obj[2]]
             IN  [c \in 1..Len(sub.children) |->
                     FileEntry(sub.children[c].name, sub.children[c].content)]

\* The bytes at a path
ContentAt(path) ==
    LET obj == Resolve(path).obj
    IN  IF Len(obj) = 2
        THEN dir[CHOOSE i \in 1..Len(dir) : dir[i].name = obj[2]].content
        ELSE IF Len(obj) = 3
        THEN (CHOOSE f \in TreeFiles(dir) : f.path = Canon(obj)).content
        ELSE Corrupt

(***************************************************************************)
(* calculate_image_hash                                                    *)
(***************************************************************************)
CanonicalSize == 256

\* imread(.., IMREAD_COLOR): the decoded image, empty when the bytes are not
\* an image
Imread(content) ==
    IF content.enc = "none" THEN [empty |-> TRUE, w |-> 0, h |-> 0, bgr |-> <<>>]
    ELSE [empty |-> FALSE, w |-> 1, h |-> 1, bgr |-> content.bgr]

\* resize(.., Size::new(256, 256), INTER_AREA) of a one-colour image
Resize(img) == [img EXCEPT !.w = CanonicalSize, !.h = CanonicalSize]

\* cvt_color(.., COLOR_BGR2GRAY): OpenCV's fixed-point luma of 8-bit pixels
CvtGray(img) ==
    [w |-> img.w, h |-> img.h,
     gray |-> (img.bgr[1] * 1868 + img.bgr[2] * 9617 + img.bgr[3] * 4899 + 8192) \div 16384]

\* md5 of the pixel buffer.  The buffers of the model are w*h copies of one
\* byte; the digest stands for MD5 on them and is, like MD5 in practice,
\* different for different buffers.
Md5(buf) == buf.gray

HexDigits == <<"0","1","2","3","4","5","6","7","8","9","a","b","c","d","e","f">>

\* format!("{:x}", digest)
FormatHex(d) == <<HexDigits[(d \div 16) + 1], HexDigits[(d % 16) + 1]>>

Ok(v) == [ok |-> TRUE, val |-> v]
Err == [ok |-> FALSE, val |-> <<>>]

\* the hash without the check for an empty image
calculate_image_hash_unchecked(image_path) ==
    LET image == Imread(ContentAt(image_path))
    IN  IF image.empty THEN Ok(FormatHex(0))
        ELSE Ok(FormatHex(Md5(CvtGray(Resize(image)))))

calculate_image_hash(image_path) ==
    LET image == Imread(ContentAt(image_path))
    IN  IF image.empty THEN Err
        ELSE Ok(FormatHex(Md5(CvtGray(Resize(image)))))

(***************************************************************************)
(* Inputs: the lines typed on stdin and the folders of the model.          *)
(***************************************************************************)
Yes == <<"y", "e", "s">>

PathLines ==
    { <<" ", "d", "\n">>,        \* the folder, with white space around it
      <<".", "/", "d", "/", "\n">>,                  \* the folder, spelled otherwise
      <<"d", "/", "a", ".", "j", "p", "g", "\n">>,   \* an entry of the folder
      <<"d", "/", ".", ".", "\n">>,                  \* the working directory
      <<"u", "/", ".", "\n">>,                       \* a path through a locked directory
      <<"x", "\n">>,             \* no such path
      <<"f", "\n">>,             \* a regular file
      <<"u", "\n">>,             \* a directory that cannot be listed
      <<"\n">> }                 \* an empty line

AnswerLines ==
    { <<"\f", "Y", "e", "S", "U+00A0", "\r", "\n">>,
      <<"n", "o", "\n">>,
      <<"y", "e", "s", "\n">>,
      <<"y", "e", "s", "!", "\n">>,
      <<>> }                     \* end of input

ImgNames ==
    << <<"a", ".", "j", "p", "g">>,
       <<"b", ".", "J", "P", "G">>,
       <<"c", ".", "p", "n", "g">>,
       <<"d", ".", "j", "p", "e", "g">>,
       <<"e", ".", "G", "i", "f">>,
       <<"f", ".", "b", "m", "p">> >>

\* What the i-th entry of the folder may be
EntryChoices(i) ==
    {FileEntry(ImgNames[i], c) : c \in Contents}
    \cup {DirEntry(ImgNames[i], <<Child>>), IoErr(ImgNames[i])}

RECURSIVE Folders(_)
Folders(n) ==
    IF n = 0 THEN {<<>>}
    ELSE LET shorter == Folders(n - 1)
         IN  shorter \cup {Append(d, e) : d \in {f \in shorter : Len(f) = n - 1},
                                          e \in EntryChoices(n)}

\* The wide choice of names, for the runs that are about the listing
ScanNames ==
    { <<"a", ".", "j", "p", "g">>,
      <<"j", ".", "J", "p", "E", "g">>,
      <<".", "g", "i", "f">>,
      <<"e">>,
      <<"g", ".", "t", "a", "r", ".", "b", "m", "p">>,
      <<"h", ".", "p", "n", "g", ".", "t", "x", "t">>,
      <<"i", ".">> }

ScanChoices(name) ==
    {FileEntry(name, RedPng), DirEntry(name, <<Child>>), BadLink(name),
     IoErr(name)}

RECURSIVE ScanFolders(_)
ScanFolders(n) ==
    IF n = 0 THEN {<<>>}
    ELSE LET shorter == ScanFolders(n - 1)
         IN  shorter \cup
             UNION {{Append(d, e) :
                        e \in UNION {ScanChoices(nm) :
                                 nm \in {x \in ScanNames :
                                            \A i \in 1..Len(d) : d[i].name # x}}} :
                    d \in {f \in shorter : Len(f) = n - 1}}

EmptyMap == [h \in {} |-> <<>>]

\* A line on stdout: its fixed text and the path or folder formatted into it
Line(text, arg) == [text |-> text, arg |-> arg]

FolderPrompt == "Enter the path to the folder containing images: "
DeletePrompt == "Do you want to delete the duplicate images? (yes/no): "

InitRun ==
    /\ pc = "read_path"
    /\ files = TreePaths(dir) \cup {FilePath}
    /\ files0 = files
    /\ folder_path = <<>>
    /\ idx = 1
    /\ image_paths = <<>>
    /\ hidx = 1
    /\ image_hashes = EmptyMap
    /\ hashed = <<>>
    /\ find_result = "none"
    /\ duplicates = EmptyMap
    /\ order = <<>>
    /\ printed = <<>>
    /\ out = <<>>
    /\ answer_line = <<>>
    /\ delete_duplicates = <<>>
    /\ gi = 1
    /\ pi = 1
    /\ attempts = <<>>
    /\ err_log = <<>>
    /\ exit_status = "running"

Init ==
    /\ dir \in Folders(MaxEntries)
    /\ InitRun

InitScan ==
    /\ dir \in ScanFolders(MaxScanEntries)
    /\ InitRun

(***************************************************************************)
(* main and find_duplicate_images, statement by statement.                 *)
(***************************************************************************)
\* the Err dropped and main going on with no groups
Propagate_swallowed == [pc |-> "print", exit_status |-> "running"]

\* `?` in main: an Err of find_duplicate_images or read_line ends main with it
Propagate == [pc |-> "exit", exit_status |-> "err"]

\* main, lines 98-101: read the folder path
ReadFolderPath ==
    /\ pc = "read_path"
    /\ out' = Append(out, Line(FolderPrompt, <<>>))
    /\ \/ /\ \E line \in PathLines : folder_path' = Trim(line)
          /\ pc' = "is_dir"
          /\ UNCHANGED exit_status
       \/ /\ pc' = "exit"                        \* read_line failed
          /\ exit_status' = "err"
          /\ UNCHANGED folder_path
    /\ UNCHANGED <<dir, files0, files, idx, image_paths, hidx, image_hashes, hashed,
                   find_result, duplicates, order, printed, answer_line,
                   delete_duplicates, gi, pi, attempts, err_log>>

\* find_duplicate_images, lines 55-57: the folder must be a directory
CheckFolder ==
    /\ pc = "is_dir"
    /\ IF ~IsDir(folder_path)
       THEN /\ find_result' = "err"
            /\ pc' = Propagate.pc
            /\ exit_status' = Propagate.exit_status
       ELSE /\ pc' = "read_dir"
            /\ UNCHANGED <<find_result, exit_status>>
    /\ UNCHANGED <<dir, files0, files, folder_path, idx, image_paths, hidx, image_hashes,
                   hashed, duplicates, order, printed, out, answer_line,
                   delete_duplicates, gi, pi, attempts, err_log>>

\* find_duplicate_images, line 61: fs::read_dir(folder_path)?
ReadDir ==
    /\ pc = "read_dir"
    /\ IF ~ReadDirOk(folder_path)
       THEN /\ find_result' = "err"
            /\ pc' = Propagate.pc
            /\ exit_status' = Propagate.exit_status
       ELSE /\ pc' = "scan"
            /\ UNCHANGED <<find_result, exit_status>>
    /\ UNCHANGED <<dir, files0, files, folder_path, idx, image_paths, hidx, image_hashes,
                   hashed, duplicates, order, printed, out, answer_line,
                   delete_duplicates, gi, pi, attempts, err_log>>

IMAGE_EXTENSIONS ==
    { <<"p", "n", "g">>, <<"j", "p", "g">>, <<"j", "p", "e", "g">>,
      <<"g", "i", "f">>, <<"b", "m", "p">> }

\* lines 65-68: a regular file whose lowercased extension is in the list
IsImage(path, name) ==
    /\ IsFile(path)
    /\ Extension(name).some
    /\ ToLower(Extension(name).val) \in IMAGE_EXTENSIONS

\* find_duplicate_images, lines 62-73: one turn of `for entry in entries`
ScanEntry ==
    /\ pc = "scan"
    /\ idx <= Len(Listing(folder_path))
    /\ LET entry == Listing(folder_path)[idx]
           path == Join(folder_path, entry.name)
       IN  \/ /\ entry.kind = "ioerr"            \* `entry?`
              /\ find_result' = "err"
              /\ pc' = Propagate.pc
              /\ exit_status' = Propagate.exit_status
              /\ UNCHANGED <<idx, image_paths>>
           \/ /\ entry.kind # "ioerr"
              /\ IsImage(path, entry.name)
              /\ image_paths' = Append(image_paths, path)
              /\ idx' = idx + 1
              /\ UNCHANGED <<pc, find_result, exit_status>>
           \/ /\ entry.kind # "ioerr"
              /\ ~IsImage(path, entry.name)
              /\ idx' = idx + 1
              /\ UNCHANGED <<pc, find_result, exit_status, image_paths>>
    /\ UNCHANGED <<dir, files0, files, folder_path, hidx, image_hashes, hashed, duplicates,
                   order, printed, out, answer_line, delete_duplicates, gi, pi,
                   attempts, err_log>>

\* find_duplicate_images, lines 75-78: the end of the listing
ScanDone ==
    /\ pc = "scan"
    /\ idx > Len(Listing(folder_path))
    /\ IF image_paths = <<>>
       THEN /\ out' = Append(out, Line("No images found in folder: ", folder_path))
            /\ find_result' = "ok"
            /\ pc' = "print"
       ELSE /\ pc' = "hash"
            /\ UNCHANGED <<out, find_result>>
    /\ UNCHANGED <<dir, files0, files, folder_path, idx, image_paths, hidx, image_hashes,
                   hashed, duplicates, order, printed, answer_line,
                   delete_duplicates, gi, pi, attempts, err_log, exit_status>>

\* a group that keeps only its latest two paths
Insert_lastTwo(map, h, p) ==
    IF h \in DOMAIN map THEN [map EXCEPT ![h] = <<@[Len(@)], p>>]
    ELSE [k \in DOMAIN map \cup {h} |-> IF k = h THEN <<p>> ELSE map[k]]

\* a group that takes each new path at its front
Insert_front(map, h, p) ==
    IF h \in DOMAIN map THEN [map EXCEPT ![h] = <<p>> \o @]
    ELSE [k \in DOMAIN map \cup {h} |-> IF k = h THEN <<p>> ELSE map[k]]

\* line 84: image_hashes.entry(image_hash).or_insert_with(Vec::new).push(image_path)
Insert(map, h, p) ==
    IF h \in DOMAIN map THEN [map EXCEPT ![h] = Append(@, p)]
    ELSE [k \in DOMAIN map \cup {h} |-> IF k = h THEN <<p>> ELSE map[k]]

\* find_duplicate_images, lines 82-85: one turn of `for image_path in image_paths`
HashStep ==
    /\ pc = "hash"
    /\ hidx <= Len(image_paths)
    /\ LET image_path == image_paths[hidx]
           image_hash == calculate_image_hash(image_path)
       IN  /\ hashed' = Append(hashed, image_path)
           /\ IF image_hash.ok
              THEN /\ image_hashes' = Insert(image_hashes, image_hash.val, image_path)
                   /\ hidx' = hidx + 1
                   /\ UNCHANGED <<pc, find_result, exit_status>>
              ELSE /\ find_result' = "err"               \* `?`
                   /\ pc' = Propagate.pc
                   /\ exit_status' = Propagate.exit_status
                   /\ UNCHANGED <<image_hashes, hidx>>
    /\ UNCHANGED <<dir, files0, files, folder_path, idx, image_paths, duplicates, order,
                   printed, out, answer_line, delete_duplicates, gi, pi, attempts,
                   err_log>>

\* the filter with no lower limit on the group's size
IsDuplicate_any(paths) == Len(paths) > 0

\* line 90: the filter's predicate
IsDuplicate(paths) == Len(paths) > 1

\* lines 88-91: into_iter().filter(..).collect()
FilterDuplicates(map) ==
    [h \in {k \in DOMAIN map : IsDuplicate(map[k])} |-> map[h]]

\* The orders a HashMap with the keys S may iterate in
Orders(S) ==
    {o \in [1..Cardinality(S) -> S] : \A i, j \in 1..Cardinality(S) : o[i] = o[j] => i = j}

\* find_duplicate_images, lines 88-93: keep the duplicates and return them
Filter ==
    /\ pc = "hash"
    /\ hidx > Len(image_paths)
    /\ duplicates' = FilterDuplicates(image_hashes)
    /\ order' \in Orders(DOMAIN duplicates')
    /\ find_result' = "ok"
    /\ pc' = "print"
    /\ UNCHANGED <<dir, files0, files, folder_path, idx, image_paths, hidx, image_hashes,
                   hashed, printed, out, answer_line, delete_duplicates, gi, pi,
                   attempts, err_log, exit_status>>

\* main, lines 107-119: print the groups and the prompt
PrintResults ==
    /\ pc = "print"
    /\ IF DOMAIN duplicates = {}
       THEN /\ out' = Append(out, Line("No duplicate images found.", <<>>))
            /\ pc' = "exit"
            /\ exit_status' = "ok"
            /\ UNCHANGED printed
       ELSE /\ printed' = [i \in 1..Len(order) |-> <<order[i], duplicates[order[i]]>>]
            /\ out' = out \o <<Line("Duplicate images found:", <<>>),
                               Line(DeletePrompt, <<>>)>>
            /\ pc' = "prompt"
            /\ UNCHANGED exit_status
    /\ UNCHANGED <<dir, files0, files, folder_path, idx, image_paths, hidx, image_hashes,
                   hashed, find_result, duplicates, order, answer_line,
                   delete_duplicates, gi, pi, attempts, err_log>>

\* anything but "no" taken for a confirmation
Confirmed_notNo(answer) == answer # <<"n", "o">>

\* line 124: delete_duplicates == "yes"
Confirmed(answer) == answer = Yes

\* main, lines 120-124 and 137-139: read the answer and decide
Prompt ==
    /\ pc = "prompt"
    /\ \/ /\ \E line \in AnswerLines :
                /\ answer_line' = line
                /\ delete_duplicates' = ToLower(Trim(line))
          /\ IF Confirmed(delete_duplicates')
             THEN /\ pc' = "delete"
                  /\ UNCHANGED <<out, exit_status>>
             ELSE /\ out' = Append(out, Line("Duplicate images not deleted.", <<>>))
                  /\ pc' = "exit"
                  /\ exit_status' = "ok"
       \/ /\ pc' = "exit"                        \* read_line failed
          /\ exit_status' = "err"
          /\ UNCHANGED <<answer_line, delete_duplicates, out>>
    /\ UNCHANGED <<dir, files0, files, folder_path, idx, image_paths, hidx, image_hashes,
                   hashed, find_result, duplicates, order, printed, gi, pi,
                   attempts, err_log>>

\* the loop without skip(1)
SkipFirst_none(paths) == paths

\* line 127: image_paths.iter().skip(1)
SkipFirst(paths) == SubSeq(paths, 2, Len(paths))

\* the failure of one removal ending main
OnRemoveError_abort == [pc |-> "exit", exit_status |-> "err"]

\* lines 129-131: `if let Err(e) = fs::remove_file(..) { eprintln!(..) }`, the
\* loop goes on
OnRemoveError == [pc |-> "delete", exit_status |-> "running"]

\* main, lines 127-134: one turn of the inner loop, fs::remove_file on one path.
\* The call removes a file that exists, and "Deleted: .." goes to stdout, or it
\* fails (permission denied, no such file), leaves the file system as it was,
\* and "Error deleting .." goes to stderr.
DeleteStep ==
    /\ pc = "delete"
    /\ gi <= Len(order)
    /\ pi <= Len(SkipFirst(duplicates[order[gi]]))
    /\ LET image_path == SkipFirst(duplicates[order[gi]])[pi]
       IN  /\ attempts' = Append(attempts, image_path)
           /\ \/ /\ IsFile(image_path)
                 /\ files' = files \ {Real(image_path)}
                 /\ out' = Append(out, Line("Deleted: ", image_path))
                 /\ UNCHANGED <<err_log, pc, exit_status>>
              \/ /\ err_log' = Append(err_log, image_path)
                 /\ pc' = OnRemoveError.pc
                 /\ exit_status' = OnRemoveError.exit_status
                 /\ UNCHANGED <<files, out>>
    /\ pi' = pi + 1
    /\ UNCHANGED <<dir, files0, folder_path, idx, image_paths, hidx, image_hashes,
                   hashed, find_result, duplicates, order, printed,
                   answer_line, delete_duplicates, gi>>

\* main, line 125: the next group of `for (_, image_paths) in &duplicates`
NextGroup ==
    /\ pc = "delete"
    /\ gi <= Len(order)
    /\ pi > Len(SkipFirst(duplicates[order[gi]]))
    /\ gi' = gi + 1
    /\ pi' = 1
    /\ UNCHANGED <<dir, files0, files, pc, folder_path, idx, image_paths, hidx,
                   image_hashes, hashed, find_result, duplicates, order, printed,
                   out, answer_line, delete_duplicates, attempts, err_log,
                   exit_status>>

\* main, lines 136 and 142: the end of the deletion
DeleteDone ==
    /\ pc = "delete"
    /\ gi > Len(order)
    /\ out' = Append(out, Line("Duplicate images deleted.", <<>>))
    /\ pc' = "exit"
    /\ exit_status' = "ok"
    /\ UNCHANGED <<dir, files0, files, folder_path, idx, image_paths, hidx, image_hashes,
                   hashed, find_result, duplicates, order, printed, answer_line,
                   delete_duplicates, gi, pi, attempts, err_log>>

Next ==
    \/ ReadFolderPath
    \/ CheckFolder
    \/ ReadDir
    \/ ScanEntry
    \/ ScanDone
    \/ HashStep
    \/ Filter
    \/ PrintResults
    \/ Prompt
    \/ DeleteStep
    \/ NextGroup
    \/ DeleteDone

Spec == Init /\ [][Next]_vars

SpecScan == InitScan /\ [][Next]_vars

(***************************************************************************)
(* What the properties speak of.                                           *)
(***************************************************************************)
SeqToSet(q) == {q[i] : i \in 1..Len(q)}

\* The files of the file system when main starts
InitialFiles == files0

\* The answer at the deletion prompt, trimmed and lowercased, is "yes"
AnsweredYes ==
    LET keep == {i \in 1..Len(answer_line) : answer_line[i] \notin WhiteSpace}
    IN  /\ printed # <<>>
        /\ keep # {}
        /\ \E lo \in keep :
              /\ \A j \in keep : lo <= j
              /\ \A j \in keep : j <= lo + 2
              /\ lo + 2 \in keep
              /\ answer_line[lo] \in {"y", "Y"}
              /\ answer_line[lo + 1] \in {"e", "E"}
              /\ answer_line[lo + 2] \in {"s", "S"}

\* main returned Ok after the deletion phase
DeletionOver == pc = "exit" /\ exit_status = "ok" /\ AnsweredYes

\* The listing of the folder ran to its end
ScanCompleted ==
    /\ ReadDirOk(folder_path)
    /\ pc \notin {"read_path", "is_dir", "read_dir", "scan"}
    /\ idx > Len(Listing(folder_path))

\* The regular files of the whole file system
AllFiles ==
    TreeFiles(dir) \cup {[path |-> FilePath, name |-> FilePath, content |-> Corrupt]}

\* The file with the plain spelling `path` lies in the folder with the plain
\* spelling `folder`, or below it; the root's plain spelling is empty
IsUnder(path, folder) ==
    \/ folder = <<>>
    \/ /\ Len(path) > Len(folder) + 1
       /\ SubSeq(path, 1, Len(folder) + 1) = folder \o <<"/">>

\* The file at the path decodes to an image
Decodable(path) == ContentAt(path).enc # "none"

\* The position of a path in the order of discovery
Position(path) == CHOOSE i \in 1..Len(image_paths) : image_paths[i] = path

\* The name has a non-empty stem, a dot, and one of the five extensions in
\* any mix of cases, and no dot after that
HasImageExtension(name) ==
    \E ext \in { <<"p", "n", "g">>, <<"j", "p", "g">>, <<"j", "p", "e", "g">>,
                 <<"g", "i", "f">>, <<"b", "m", "p">> } :
        /\ Len(name) >= Len(ext) + 2
        /\ name[Len(name) - Len(ext)] = "."
        /\ \A k \in 1..Len(ext) :
              \E l \in 1..Len(LowerCase) :
                 /\ LowerCase[l] = ext[k]
                 /\ name[Len(name) - Len(ext) + k] \in {LowerCase[l], UpperCase[l]}

(***************************************************************************)
(* C1 as stated: when the user confirms, after the deletion phase every    *)
(* duplicate group has exactly one surviving file, its first path, and     *)
(* every other member is gone from the file system.                        *)
(***************************************************************************)
C1_AllButFirstRemoved ==
    DeletionOver =>
        \A h \in DOMAIN duplicates :
            /\ IsFile(duplicates[h][1])
            /\ \A i \in 2..Len(duplicates[h]) : ~IsFile(duplicates[h][i])

(***************************************************************************)
(* C1 amended: when the user confirms, after the deletion phase the first  *)
(* path of every group survives, and every other member is gone from the   *)
(* file system unless fs::remove_file failed on it, in which case it       *)
(* survives and an "Error deleting" line names it.                         *)
(***************************************************************************)
C1_FirstKeptOthersRemovedOrReported ==
    DeletionOver =>
        \A h \in DOMAIN duplicates :
            /\ IsFile(duplicates[h][1])
            /\ duplicates[h][1] \notin SeqToSet(err_log)
            /\ \A i \in 2..Len(duplicates[h]) :
                  IsFile(duplicates[h][i]) <=> duplicates[h][i] \in SeqToSet(err_log)

C1_Witness ==
    /\ DeletionOver
    /\ \E h \in DOMAIN duplicates :
          /\ Len(duplicates[h]) >= 3
          /\ ~IsFile(duplicates[h][2])
          /\ IsFile(duplicates[h][3])

(***************************************************************************)
(* C2: unless the answer at the deletion prompt, trimmed and lowercased,   *)
(* is "yes" (also when no prompt is shown), the set of files is the one    *)
(* main started with, throughout the run and at its end.                   *)
(***************************************************************************)
C2_NoConfirmationNoMutation ==
    ~AnsweredYes => files = InitialFiles /\ attempts = <<>>

C2_Witness ==
    /\ pc = "exit"
    /\ printed # <<>>
    /\ answer_line = <<"y", "e", "s", "!", "\n">>
    /\ files = InitialFiles

(***************************************************************************)
(* C3: when find_duplicate_images returns Ok, every fingerprint that two   *)
(* or more candidates have is a key of the result, with exactly those      *)
(* candidates, and every key of the result has two or more paths.          *)
(***************************************************************************)
C3_GroupIffTwoOrMore ==
    find_result = "ok" =>
        \A fp \in {[p \in SeqToSet(image_paths) |-> calculate_image_hash(p).val]} :
            /\ \A p \in DOMAIN fp :
                  Cardinality({q \in DOMAIN fp : fp[q] = fp[p]}) >= 2 =>
                      /\ fp[p] \in DOMAIN duplicates
                      /\ SeqToSet(duplicates[fp[p]]) = {q \in DOMAIN fp : fp[q] = fp[p]}
            /\ \A h \in DOMAIN duplicates :
                  /\ Len(duplicates[h]) >= 2
                  /\ Cardinality({q \in DOMAIN fp : fp[q] = h}) >= 2

C3_Witness ==
    /\ find_result = "ok"
    /\ Cardinality(DOMAIN image_hashes) = 2
    /\ Cardinality(DOMAIN duplicates) = 1
    /\ Len(image_paths) = 3

(***************************************************************************)
(* C4 as stated: the scan collects exactly the files under the folder, at  *)
(* any depth, whose extension is one of png, jpg, jpeg, gif, bmp in any    *)
(* mix of cases.                                                           *)
(***************************************************************************)
C4_CollectsWholeTree ==
    ScanCompleted =>
        {Real(p) : p \in SeqToSet(image_paths)} =
            {f.path : f \in {g \in AllFiles :
                                  /\ IsUnder(g.path, Real(folder_path))
                                  /\ HasImageExtension(g.name)}}

(***************************************************************************)
(* C4 amended: a scan that reaches the end of the listing collects exactly *)
(* the regular files that are immediate children of the folder (none from  *)
(* inside a subdirectory) and whose name has a non-empty stem and an       *)
(* extension that is one of png, jpg, jpeg, gif, bmp in any mix of cases,  *)
(* each once, in listing order.                                            *)
(***************************************************************************)
C4_CollectsImmediateChildren ==
    ScanCompleted =>
        LET entries == Listing(folder_path)
            wanted == {i \in 1..Len(entries) :
                          /\ entries[i].kind = "file"
                          /\ HasImageExtension(entries[i].name)}
        IN  /\ SeqToSet(image_paths) =
                  {Join(folder_path, entries[i].name) : i \in wanted}
            /\ Len(image_paths) = Cardinality(wanted)
            /\ \A i, j \in wanted :
                  i < j => Position(Join(folder_path, entries[i].name))
                               < Position(Join(folder_path, entries[j].name))

C4_Witness ==
    /\ ScanCompleted
    /\ folder_path = RootDir
    /\ \E i \in 1..Len(dir) : dir[i].kind = "dir" /\ dir[i].children # <<>>
    /\ image_paths = <<Join(RootDir, <<"j", ".", "J", "p", "E", "g">>)>>

(***************************************************************************)
(* C5: when the folder path is not an existing directory, main never gets  *)
(* past the check: no entry is read, nothing is fingerprinted, printed,    *)
(* asked or deleted, find_duplicate_images returns an error and main ends  *)
(* with it.                                                                *)
(***************************************************************************)
C5_NotADirectoryFailsFirst ==
    (pc # "read_path" /\ ~IsDir(folder_path)) =>
        /\ pc \in {"is_dir", "exit"}
        /\ pc = "exit" => exit_status = "err"
        /\ find_result # "ok"
        /\ idx = 1 /\ image_paths = <<>> /\ hashed = <<>>
        /\ printed = <<>> /\ out = <<Line(FolderPrompt, <<>>)>>
        /\ attempts = <<>> /\ files = InitialFiles

C5_Witness ==
    /\ pc = "exit"
    /\ folder_path = <<"x">>
    /\ find_result = "err"
    /\ exit_status = "err"
    /\ Len(dir) >= 2

(***************************************************************************)
(* C6 as stated: an error on one directory entry during the listing does   *)
(* not fail the scan; find_duplicate_images does not return an error       *)
(* because of it.                                                          *)
(***************************************************************************)
C6_EntryErrorSkipped ==
    (/\ ReadDirOk(folder_path)
     /\ idx <= Len(Listing(folder_path))
     /\ Listing(folder_path)[idx].kind = "ioerr") =>
        find_result # "err"

(***************************************************************************)
(* C7: after a confirmed deletion main has returned Ok, fs::remove_file    *)
(* was called exactly once on every path of every group but the first,     *)
(* on no other path, and the paths it failed on are the ones reported.     *)
(***************************************************************************)
C7_EveryOtherMemberAttemptedOnce ==
    (AnsweredYes /\ pc = "exit") =>
        /\ exit_status = "ok"
        /\ \A h \in DOMAIN duplicates :
              \A i \in 2..Len(duplicates[h]) :
                  Cardinality({k \in 1..Len(attempts) : attempts[k] = duplicates[h][i]}) = 1
        /\ SeqToSet(attempts) =
              UNION {{duplicates[h][i] : i \in 2..Len(duplicates[h])} : h \in DOMAIN duplicates}
        /\ SeqToSet(err_log) = {p \in SeqToSet(attempts) : IsFile(p)}

C7_Witness ==
    /\ AnsweredYes /\ pc = "exit"
    /\ Len(attempts) >= 3
    /\ err_log = <<attempts[1], attempts[2]>>
    /\ ~IsFile(attempts[3])

(***************************************************************************)
(* C8: the duplicate groups, as sets of paths per fingerprint, are the     *)
(* same for every order in which the candidates are inserted.              *)
(***************************************************************************)
RECURSIVE GroupAll(_, _, _)
GroupAll(paths, fp, map) ==
    IF paths = <<>> THEN map
    ELSE GroupAll(Tail(paths), fp, Insert(map, fp[Head(paths)], Head(paths)))

AsSets(map) == [h \in DOMAIN map |-> SeqToSet(map[h])]

C8_GroupsOrderIndependent ==
    (pc = "print" /\ find_result = "ok") =>
        \A fp \in {[p \in SeqToSet(image_paths) |-> calculate_image_hash(p).val]} :
            \A o \in Orders(SeqToSet(image_paths)) :
                AsSets(FilterDuplicates(GroupAll(o, fp, EmptyMap))) = AsSets(duplicates)

C8_Witness ==
    /\ pc = "print" /\ find_result = "ok"
    /\ Cardinality(DOMAIN image_hashes) = 2
    /\ \E h \in DOMAIN duplicates : Len(duplicates[h]) = 3

(***************************************************************************)
(* C9: in every group the paths stand in the order of their discovery,     *)
(* none twice, and the first path of a returned group, the one deletion    *)
(* keeps, is the earliest discovered and is never handed to                *)
(* fs::remove_file.                                                        *)
(***************************************************************************)
C9_GroupsInDiscoveryOrder ==
    /\ \A h \in DOMAIN image_hashes :
          \A i, j \in 1..Len(image_hashes[h]) :
              i < j => Position(image_hashes[h][i]) < Position(image_hashes[h][j])
    /\ \A h \in DOMAIN duplicates :
          /\ \A i, j \in 1..Len(duplicates[h]) :
                i < j => Position(duplicates[h][i]) < Position(duplicates[h][j])
          /\ duplicates[h][1] \notin SeqToSet(attempts)

C9_Witness ==
    /\ pc = "exit"
    /\ Len(attempts) = 2
    /\ \E h \in DOMAIN duplicates :
          /\ Len(duplicates[h]) = 3
          /\ Position(duplicates[h][1]) = 1
          /\ Position(duplicates[h][2]) = 3
          /\ Position(duplicates[h][3]) = 4

(***************************************************************************)
(* C10: once calculate_image_hash was called on a file that does not       *)
(* decode, find_duplicate_images has returned an error with no groups,     *)
(* main has ended with it, and nothing was printed, asked or deleted; and  *)
(* fs::remove_file is only ever called when every candidate was            *)
(* fingerprinted and decodes.                                              *)
(***************************************************************************)
C10_HashFailureIsFatal ==
    /\ (\E i \in 1..Len(hashed) : ~Decodable(hashed[i])) =>
          /\ pc = "exit" /\ exit_status = "err" /\ find_result = "err"
          /\ DOMAIN duplicates = {}
          /\ printed = <<>> /\ out = <<Line(FolderPrompt, <<>>)>>
          /\ attempts = <<>> /\ files = InitialFiles
    /\ attempts # <<>> =>
          /\ hashed = image_paths
          /\ \A i \in 1..Len(image_paths) : Decodable(image_paths[i])

C10_Witness ==
    /\ pc = "exit" /\ exit_status = "err"
    /\ Len(hashed) = 3
    /\ Decodable(hashed[1]) /\ Decodable(hashed[2]) /\ ~Decodable(hashed[3])
    /\ calculate_image_hash(hashed[1]) = calculate_image_hash(hashed[2])
    /\ Len(image_paths) = 4

====
